---- MODULE Spec2Model ----
(***************************************************************************)
(* Model of the weaving inspection rig simulators:                         *)
(*   - CamerasController  (hardware_controllers/cameras_controller)        *)
(*   - VelocityGenerator  (hardware_controllers/velocity_sensor_controller)*)
(*   - the measurement, frequency-search and capture loops of main.py      *)
(* Each method is split at the points where the Python code can be         *)
(* interleaved with another thread: lock acquisition, the statements under *)
(* a lock, sleeps.                                                         *)
(***************************************************************************)
EXTENDS Integers, Naturals, Sequences, FiniteSets, TLC

(* ------------------------------ bounds -------------------------------- *)
\* number of client threads that call the camera concurrently
NumThreads == 2

Threads == 1..NumThreads

\* number of generator threads start_generator() may create
MaxLoops == 2
\* number of noise samples the generator may draw (PerlinNoiseGenerator.new_value calls)
MaxNoiseCalls == 1500

Loops == 1..MaxLoops

\* number of ramp/plateau cycles followed with binary64 arithmetic
MaxCycles == 2

\* number of cycles of the image-capture loop that are followed
MaxCaptureCycles == 2

\* longest sample sequence handed to the signal functions
MaxSamples == 5
\* largest window_size handed to moving_average
MaxWindow == 3

(* ------------------------------ state --------------------------------- *)
VARIABLES
    \* CamerasController fields
    cameras_ready,        \* self._cameras_ready
    cameras_ready_lock,   \* self._cameras_ready_lock: set of holders ({} = free)
    trigger,              \* self._trigger (Event): TRUE = set = armed
    trigger_lock,         \* self._trigger_lock: set of holders ({} = free)
    \* client threads of the camera
    pc,                   \* position of each thread inside the method it runs
    op,                   \* method the thread runs / ran last
    res,                  \* outcome of the last finished call of the thread
    \* observation of the camera protocol (history, not program state)
    lastEvent,            \* outcome of the latest trigger()/collect() that left the region
    prevEvent,            \* outcome of the one before it
    unconsumed,           \* successful triggers since the last successful collect (capped at 2)
    \* VelocityGenerator fields (velocities in units of 1/Scale cm/min)
    run_thread,           \* self._run_thread
    speed_generator_thread, \* self._speed_generator_thread: {} = None, {g} = Thread g
    current_value,        \* self._current_value
    noisy_value,          \* self._noisy_value
    t_value,              \* PerlinNoiseGenerator._t_value, counted in increments since construction
    \* the generator threads, each running _generate_speed_values
    gphase,               \* statement of the loop body the thread is in
    gstmt,                \* statement inside _ramp/_linear
    gi,                   \* the `for _ in range(iterations)` counter
    gslope,               \* local `slope` of _ramp
    \* observation of the velocity simulator (history, not program state)
    last_noise,           \* the latest value new_value() returned
    event,                \* what the latest step was, with the value a read returned
    stop_pending,         \* stop_generator() was called on a running simulator, no start since
    iters_after_stop,     \* update iterations begun since then (capped at 2)
    \* one generator thread with _current_value as the binary64 it is in Python
    f_run,                \* self._run_thread
    f_phase,              \* statement of the loop body the thread is in
    f_stmt,               \* statement inside _ramp/_linear
    f_i,                  \* the `for _ in range(iterations)` counter
    f_slope,              \* local `slope` of _ramp
    f_current,            \* self._current_value
    f_cycles,             \* passes of the while loop begun
    \* one call of find_optimal_frequency
    fo_pc,                \* statement the call is at
    frequency,            \* local `frequency`
    displacement,         \* local `displacement`, in units of 10^-DECIMAL_PLACES
    fo_result,            \* the value returned
    measured,             \* history: the candidates measured, with what was measured
    \* the thread running measure_velocity
    mv_pc,                \* statement the thread is at
    mv_samples,           \* len(velocity_samples)
    mv_raised,            \* the exception that reached `except Exception` of measure_velocity
    mv_dispatch,          \* history: outcome of the latest api.surface_movement call
    \* the thread running capture_images, client CaptureThread of the camera
    cap_pc,               \* statement the thread is at
    cap_idx,              \* position in `for light_type in [GREEN, BLUE]`
    lights,               \* local `lights`: the light types appended so far
    cap_exc,              \* exception on its way out of the while loop ("-" = none)
    cap_cycles,           \* passes of `while True` begun
    tasks,                \* the dispatch threads: position of each in api.pictures_batch
    batches,              \* the `lights` argument each dispatch thread was given
    cap_trace,            \* history: camera calls issued in the current pass
    clock,                \* the latest value time.time() returned to the capture thread, in s
    last_capture_time,    \* local `last_capture_time` of capture_images
    last_light,           \* the dict get_light returned last (<<>> = none yet)
    prev_light_time,      \* history: when the light before was assembled (loop start at first)
    \* the main thread
    main_pc,              \* statement of `__main__` the main thread is at
    \* one call of moving_average, calculate_displacement or
    \* get_velocity_and_displacement
    velocities,           \* the samples handed in, in tenths
    sg_out                \* the call made and what it returned or raised (<<>> = not called)

camVars == <<cameras_ready, cameras_ready_lock, trigger, trigger_lock,
             pc, op, res, lastEvent, prevEvent, unconsumed>>

velVars == <<run_thread, speed_generator_thread, current_value, noisy_value, t_value,
             gphase, gstmt, gi, gslope, last_noise, event, stop_pending, iters_after_stop>>

rampVars == <<f_run, f_phase, f_stmt, f_i, f_slope, f_current, f_cycles>>

searchVars == <<fo_pc, frequency, displacement, fo_result, measured>>

measureVars == <<mv_pc, mv_samples, mv_raised, mv_dispatch>>

captureVars == <<cap_pc, cap_idx, lights, cap_exc, cap_cycles, tasks, batches, cap_trace,
                 clock, last_capture_time, last_light, prev_light_time>>

mainVars == <<main_pc>>

signalVars == <<velocities, sg_out>>

vars == <<camVars, velVars, rampVars, searchVars, measureVars, captureVars, mainVars,
          signalVars>>

\* what the steps of one component leave alone
nonCamVars == <<velVars, rampVars, searchVars, measureVars, captureVars, mainVars, signalVars>>
nonVelVars == <<camVars, rampVars, searchVars, measureVars, captureVars, mainVars, signalVars>>
nonRampVars == <<camVars, velVars, searchVars, measureVars, captureVars, mainVars, signalVars>>
nonSearchVars == <<camVars, velVars, rampVars, measureVars, captureVars, mainVars, signalVars>>
nonMeasureVars == <<camVars, velVars, rampVars, searchVars, captureVars, mainVars, signalVars>>
nonCaptureVars == <<velVars, rampVars, searchVars, measureVars, mainVars, signalVars>>

(* ---------------------- CamerasController ----------------------------- *)
CameraOps == {"open", "trigger", "collect"}

\* CamerasController.__init__
CameraInit ==
    /\ cameras_ready = FALSE
    /\ cameras_ready_lock = {}
    /\ trigger = FALSE
    /\ trigger_lock = {}
    /\ pc = [t \in Threads |-> "idle"]
    /\ op = [t \in Threads |-> "none"]
    /\ res = [t \in Threads |-> "none"]
    /\ lastEvent = "none"
    /\ prevEvent = "none"
    /\ unconsumed = 0

\* a finished call: record its outcome and return the thread to its caller
Finish(t, outcome) ==
    /\ pc' = [pc EXCEPT ![t] = "idle"]
    /\ res' = [res EXCEPT ![t] = outcome]

\* the protocol history after a trigger()/collect() left the region with `outcome`
Observe(outcome) ==
    /\ prevEvent' = lastEvent
    /\ lastEvent' = outcome
    /\ unconsumed' = CASE outcome = "trigger_true" -> IF unconsumed < 2 THEN unconsumed + 1 ELSE 2
                       [] outcome = "collect_ok" -> 0
                       [] OTHER -> unconsumed

\* `with self._cameras_ready_lock:` can be entered
CamerasReadyLockFree == cameras_ready_lock = {}

\* variant: the region is entered without taking the lock
TriggerLockIgnored == TRUE

\* `with self._trigger_lock:` can be entered
TriggerLockFree == trigger_lock = {}

\* variant: the armed check always reads idle
IsSetNeverSeen == FALSE

\* `self._trigger.is_set()`
IsSet == trigger

\* variant: the readiness check never raises
CamerasNotReadyUnchecked == FALSE

\* `if not self._cameras_ready:` of _raise_on_cameras_not_ready
CamerasNotReady == ~cameras_ready

\* variant: collect_pictures returns the pictures and leaves the flag set
ClearedTriggerKept == TRUE

\* the flag after the success path of collect_pictures (`self._trigger.clear()`)
ClearedTrigger == FALSE

\* thread t enters method o of the controller
Invoke(t, o) ==
    /\ pc[t] = "idle"
    /\ op' = [op EXCEPT ![t] = o]
    /\ pc' = [pc EXCEPT ![t] = IF o = "open" THEN "o_acq" ELSE "r_acq"]
    /\ res' = [res EXCEPT ![t] = "running"]
    /\ UNCHANGED <<cameras_ready, cameras_ready_lock, trigger, trigger_lock,
                   lastEvent, prevEvent, unconsumed>>

\* a client thread calls open_cameras(), trigger() or collect_pictures(light_type)
Call(t, o) ==
    /\ Invoke(t, o)
    /\ UNCHANGED nonCamVars

\* open_cameras: `with self._cameras_ready_lock:`
OpenAcquire(t) ==
    /\ pc[t] = "o_acq"
    /\ CamerasReadyLockFree
    /\ cameras_ready_lock' = {t}
    /\ pc' = [pc EXCEPT ![t] = "o_set"]
    /\ UNCHANGED <<cameras_ready, trigger, trigger_lock, op, res,
                   lastEvent, prevEvent, unconsumed>>
    /\ UNCHANGED nonCamVars

\* open_cameras: `self._cameras_ready = True`, lock released on leaving the block
OpenSet(t) ==
    /\ pc[t] = "o_set"
    /\ cameras_ready' = TRUE
    /\ cameras_ready_lock' = {}
    /\ Finish(t, "None")
    /\ UNCHANGED <<trigger, trigger_lock, op, lastEvent, prevEvent, unconsumed>>
    /\ UNCHANGED nonCamVars

\* _raise_on_cameras_not_ready: `with self._cameras_ready_lock:`
ReadyAcquire(t) ==
    /\ pc[t] = "r_acq"
    /\ CamerasReadyLockFree
    /\ cameras_ready_lock' = {t}
    /\ pc' = [pc EXCEPT ![t] = "r_chk"]
    /\ UNCHANGED <<cameras_ready, trigger, trigger_lock, op, res,
                   lastEvent, prevEvent, unconsumed>>
    /\ UNCHANGED nonCamVars

\* _raise_on_cameras_not_ready: the check; the raise propagates out of
\* trigger()/collect_pictures(), which have not touched the trigger yet
ReadyCheck(t) ==
    /\ pc[t] = "r_chk"
    /\ cameras_ready_lock' = {}
    /\ IF CamerasNotReady
         THEN Finish(t, "CamerasNotReadyError")
         ELSE /\ pc' = [pc EXCEPT ![t] = IF op[t] = "trigger" THEN "t_acq" ELSE "c_acq"]
              /\ UNCHANGED res
    /\ UNCHANGED <<cameras_ready, trigger, trigger_lock, op,
                   lastEvent, prevEvent, unconsumed>>
    /\ UNCHANGED nonCamVars

\* trigger: `with self._trigger_lock:`
TriggerAcquire(t) ==
    /\ pc[t] = "t_acq"
    /\ TriggerLockFree
    /\ trigger_lock' = {t}
    /\ pc' = [pc EXCEPT ![t] = "t_chk"]
    /\ UNCHANGED <<cameras_ready, cameras_ready_lock, trigger, op, res,
                   lastEvent, prevEvent, unconsumed>>
    /\ UNCHANGED nonCamVars

\* trigger: `if self._trigger.is_set(): return False`
TriggerCheck(t) ==
    /\ pc[t] = "t_chk"
    /\ IF IsSet
         THEN /\ trigger_lock' = trigger_lock \ {t}
              /\ Finish(t, "False")
              /\ Observe("trigger_false")
         ELSE /\ pc' = [pc EXCEPT ![t] = "t_set"]
              /\ UNCHANGED <<trigger_lock, res, lastEvent, prevEvent, unconsumed>>
    /\ UNCHANGED <<cameras_ready, cameras_ready_lock, trigger, op>>
    /\ UNCHANGED nonCamVars

\* trigger: `self._trigger.set(); return True`
TriggerSet(t) ==
    /\ pc[t] = "t_set"
    /\ trigger' = TRUE
    /\ trigger_lock' = trigger_lock \ {t}
    /\ Finish(t, "True")
    /\ Observe("trigger_true")
    /\ UNCHANGED <<cameras_ready, cameras_ready_lock, op>>
    /\ UNCHANGED nonCamVars

\* collect_pictures: `with self._trigger_lock:`
CollectAcquire(t) ==
    /\ pc[t] = "c_acq"
    /\ TriggerLockFree
    /\ trigger_lock' = {t}
    /\ pc' = [pc EXCEPT ![t] = "c_chk"]
    /\ UNCHANGED <<cameras_ready, cameras_ready_lock, trigger, op, res,
                   lastEvent, prevEvent, unconsumed>>
    /\ UNCHANGED nonCamVars

\* collect_pictures: `if not self._trigger.is_set(): raise PictureNotReadyError`
CollectCheck(t) ==
    /\ pc[t] = "c_chk"
    /\ IF ~IsSet
         THEN /\ trigger_lock' = trigger_lock \ {t}
              /\ Finish(t, "PictureNotReadyError")
              /\ Observe("collect_not_ready")
         ELSE /\ pc' = [pc EXCEPT ![t] = "c_get"]
              /\ UNCHANGED <<trigger_lock, res, lastEvent, prevEvent, unconsumed>>
    /\ UNCHANGED <<cameras_ready, cameras_ready_lock, trigger, op>>
    /\ UNCHANGED nonCamVars

\* collect_pictures: `pictures = self._get_pictures(light_type)`.
\* _create_picture_filepath raises PictureNotFoundError when the asset file is
\* not on disk (found = FALSE); the exception leaves the `with` block, which
\* releases the lock, before `self._trigger.clear()` is reached.
CollectGetPictures(t) ==
    /\ pc[t] = "c_get"
    /\ \E found \in BOOLEAN :
         IF found
           THEN /\ pc' = [pc EXCEPT ![t] = "c_sleep"]
                /\ UNCHANGED <<trigger_lock, res, lastEvent, prevEvent, unconsumed>>
           ELSE /\ trigger_lock' = trigger_lock \ {t}
                /\ Finish(t, "PictureNotFoundError")
                /\ Observe("collect_not_found")
    /\ UNCHANGED <<cameras_ready, cameras_ready_lock, trigger, op>>
    /\ UNCHANGED nonCamVars

\* variant: the capture delay is slept after leaving the `with` block
CollectSleepUnlocked(t) ==
    /\ pc[t] = "c_sleep"
    /\ pc' = [pc EXCEPT ![t] = "c_clear"]
    /\ trigger_lock' = trigger_lock \ {t}
    /\ UNCHANGED <<cameras_ready, cameras_ready_lock, trigger,
                   op, res, lastEvent, prevEvent, unconsumed>>
    /\ UNCHANGED nonCamVars

\* collect_pictures: `sleep(self._calculate_capturing_sleep_time())`, 3 to 5 s
\* during which every other thread may run
CollectSleep(t) ==
    /\ pc[t] = "c_sleep"
    /\ pc' = [pc EXCEPT ![t] = "c_clear"]
    /\ UNCHANGED <<cameras_ready, cameras_ready_lock, trigger, trigger_lock,
                   op, res, lastEvent, prevEvent, unconsumed>>
    /\ UNCHANGED nonCamVars

\* collect_pictures: `self._trigger.clear(); return pictures`
CollectClear(t) ==
    /\ pc[t] = "c_clear"
    /\ trigger' = ClearedTrigger
    /\ trigger_lock' = trigger_lock \ {t}
    /\ Finish(t, "Pictures")
    /\ Observe("collect_ok")
    /\ UNCHANGED <<cameras_ready, cameras_ready_lock, op>>
    /\ UNCHANGED nonCamVars

CameraNext ==
    \E t \in Threads :
        \/ \E o \in CameraOps : Call(t, o)
        \/ OpenAcquire(t)
        \/ OpenSet(t)
        \/ ReadyAcquire(t)
        \/ ReadyCheck(t)
        \/ TriggerAcquire(t)
        \/ TriggerCheck(t)
        \/ TriggerSet(t)
        \/ CollectAcquire(t)
        \/ CollectCheck(t)
        \/ CollectGetPictures(t)
        \/ CollectSleep(t)
        \/ CollectClear(t)

(* ------------------------ VelocityGenerator --------------------------- *)
\* velocities are held as integers in units of 1/Scale: the two slopes are
\* 100/500 and -100/200, so tenths are exact
Scale == 2 * 5

\* VelocityGenerator._MINIMUM_VALUE_WITHOUT_NOISE, _MAXIMUM_VALUE_WITHOUT_NOISE
MinimumValueWithoutNoise == 0
MaximumValueWithoutNoise == 100
\* VelocityGenerator._MINIMUM_OUTLIER_VALUE, _MAXIMUM_OUTLIER_VALUE
MinimumOutlierValue == -150
MaximumOutlierValue == 400
\* self.noise_coefficient
NoiseCoefficient == 5
\* the iterations arguments of the four calls of _generate_speed_values
RampUpIterations == 500
HighIterations == 500
RampDownIterations == 200
LowIterations == 200

\* values noise.pnoise1 may return (it stays within [-1, 1])
NoiseSamples == {-1, 0, 1}

\* values random_uniform(_MINIMUM_OUTLIER_VALUE, _MAXIMUM_OUTLIER_VALUE) may return
OutlierSamples == {MinimumOutlierValue * Scale, MaximumOutlierValue * Scale}

\* the four calls of the loop body of _generate_speed_values, in order
Iterations(phase) ==
    CASE phase = "ramp_up" -> RampUpIterations
      [] phase = "linear_high" -> HighIterations
      [] phase = "ramp_down" -> RampDownIterations
      [] phase = "linear_low" -> LowIterations

TargetValue(phase) ==
    IF phase = "ramp_up" THEN MaximumValueWithoutNoise * Scale
                         ELSE MinimumValueWithoutNoise * Scale

\* variant: the high plateau is left out of the cycle
NextPhaseNoPlateau(phase) ==
    CASE phase = "ramp_up" -> "ramp_down"
      [] phase = "linear_high" -> "ramp_down"
      [] phase = "ramp_down" -> "linear_low"
      [] phase = "linear_low" -> "while"

NextPhase(phase) ==
    CASE phase = "ramp_up" -> "linear_high"
      [] phase = "linear_high" -> "ramp_down"
      [] phase = "ramp_down" -> "linear_low"
      [] phase = "linear_low" -> "while"

FirstStmt(phase) ==
    CASE phase \in {"ramp_up", "ramp_down"} -> "slope"
      [] phase \in {"linear_high", "linear_low"} -> "noise"
      [] OTHER -> "-"

\* Thread.is_alive(): started and its target has not returned
IsAlive(g) == gphase[g] \notin {"unborn", "done"}

LoopEvent == [call |-> "loop", kind |-> "-", value |-> 0]

\* VelocityGenerator.__init__ and PerlinNoiseGenerator.__init__
VelocityInit ==
    /\ run_thread = FALSE
    /\ speed_generator_thread = {}
    /\ current_value = 0
    /\ noisy_value = 0
    /\ t_value = 0
    /\ gphase = [g \in Loops |-> "unborn"]
    /\ gstmt = [g \in Loops |-> "-"]
    /\ gi = [g \in Loops |-> 0]
    /\ gslope = [g \in Loops |-> 0]
    /\ last_noise = 0
    /\ event = [call |-> "none", kind |-> "-", value |-> 0]
    /\ stop_pending = FALSE
    /\ iters_after_stop = 0

\* variant: start_generator() creates a thread whatever the old one does
NeedsThreadAlways == TRUE

\* `if not self._speed_generator_thread or not self._speed_generator_thread.is_alive():`
NeedsThread ==
    \/ speed_generator_thread = {}
    \/ \A g \in speed_generator_thread : ~IsAlive(g)

\* start_generator(). start_sensor()/stop_sensor() are issued one after the other
\* by the thread that owns the controller (main.py), so the check, the flag and
\* Thread(...).start() are one step; the generator threads and the readers
\* interleave with it freely. The guard on an unborn loop caps the threads created.
StartGenerator ==
    /\ event' = [call |-> "start", kind |-> "-", value |-> 0]
    /\ IF NeedsThread /\ \E g \in Loops : gphase[g] = "unborn"
         THEN LET g == CHOOSE h \in Loops :
                          gphase[h] = "unborn" /\ \A k \in Loops : gphase[k] = "unborn" => h <= k
              IN /\ run_thread' = TRUE
                 /\ speed_generator_thread' = {g}
                 /\ gphase' = [gphase EXCEPT ![g] = "while"]
                 /\ stop_pending' = FALSE
                 /\ iters_after_stop' = 0
         ELSE UNCHANGED <<run_thread, speed_generator_thread, gphase,
                          stop_pending, iters_after_stop>>
    /\ UNCHANGED <<current_value, noisy_value, t_value, gstmt, gi, gslope, last_noise>>
    /\ UNCHANGED nonVelVars

\* stop_generator(): `self._run_thread = False`
StopGenerator ==
    /\ event' = [call |-> "stop", kind |-> "-", value |-> 0]
    /\ run_thread' = FALSE
    /\ stop_pending' = (stop_pending \/ (run_thread /\ \E g \in Loops : IsAlive(g)))
    /\ UNCHANGED <<speed_generator_thread, current_value, noisy_value, t_value,
                   gphase, gstmt, gi, gslope, last_noise, iters_after_stop>>
    /\ UNCHANGED nonVelVars

\* variant: get_velocity() draws a fresh noise sample for the value it returns
GetVelocityResampling(kind, outlier) ==
    /\ t_value < MaxNoiseCalls
    /\ \E n \in NoiseSamples :
         /\ last_noise' = n
         /\ noisy_value' = current_value + n * NoiseCoefficient * Scale
         /\ event' = [call |-> "read", kind |-> kind,
                      value |-> CASE kind = "outlier_zero" -> 0
                                  [] kind = "outlier_range" -> outlier
                                  [] OTHER -> noisy_value']
    /\ t_value' = t_value + 1
    /\ UNCHANGED <<run_thread, speed_generator_thread, current_value,
                   gphase, gstmt, gi, gslope, stop_pending, iters_after_stop>>
    /\ UNCHANGED nonVelVars

\* get_velocity(): kind is the outcome of _is_outlier() and of the first
\* random() of _get_outlier_velocity(), outlier the value random_uniform returns
GetVelocity(kind, outlier) ==
    /\ event' = [call |-> "read", kind |-> kind,
                 value |-> CASE kind = "outlier_zero" -> 0
                             [] kind = "outlier_range" -> outlier
                             [] OTHER -> noisy_value]
    /\ UNCHANGED <<run_thread, speed_generator_thread, current_value, noisy_value, t_value,
                   gphase, gstmt, gi, gslope, last_noise, stop_pending, iters_after_stop>>
    /\ UNCHANGED nonVelVars

ReadKinds == {"noisy", "outlier_zero", "outlier_range"}

\* an update iteration of thread g begins: the history of stop()
BeginIteration ==
    iters_after_stop' = IF stop_pending /\ iters_after_stop < 2
                          THEN iters_after_stop + 1 ELSE iters_after_stop

\* the for loop of _ramp/_linear after one iteration of thread g
AdvanceIteration(g) ==
    IF gi[g] + 1 < Iterations(gphase[g])
      THEN /\ gi' = [gi EXCEPT ![g] = @ + 1]
           /\ gstmt' = [gstmt EXCEPT ![g] = IF gphase[g] \in {"ramp_up", "ramp_down"}
                                              THEN "add" ELSE "noise"]
           /\ UNCHANGED gphase
      ELSE /\ gi' = [gi EXCEPT ![g] = 0]
           /\ gphase' = [gphase EXCEPT ![g] = NextPhase(gphase[g])]
           /\ gstmt' = [gstmt EXCEPT ![g] = FirstStmt(NextPhase(gphase[g]))]

\* _add_noise(): new_value() advances the cursor and returns the sample n
AddNoise(n) ==
    /\ t_value < MaxNoiseCalls
    /\ t_value' = t_value + 1
    /\ last_noise' = n
    /\ noisy_value' = current_value + n * NoiseCoefficient * Scale

\* _generate_speed_values: `while self._run_thread:`
LoopWhile(g) ==
    /\ gphase[g] = "while"
    /\ event' = LoopEvent
    /\ IF run_thread
         THEN /\ gphase' = [gphase EXCEPT ![g] = "ramp_up"]
              /\ gstmt' = [gstmt EXCEPT ![g] = "slope"]
         ELSE /\ gphase' = [gphase EXCEPT ![g] = "done"]
              /\ UNCHANGED gstmt
    /\ UNCHANGED <<run_thread, speed_generator_thread, current_value, noisy_value, t_value,
                   gi, gslope, last_noise, stop_pending, iters_after_stop>>
    /\ UNCHANGED nonVelVars

\* _ramp: `slope = (target_value - self._current_value) / iterations`
RampSlope(g) ==
    /\ gphase[g] \in {"ramp_up", "ramp_down"}
    /\ gstmt[g] = "slope"
    /\ event' = LoopEvent
    /\ gslope' = [gslope EXCEPT ![g] =
                    (TargetValue(gphase[g]) - current_value) \div Iterations(gphase[g])]
    /\ gi' = [gi EXCEPT ![g] = 0]
    /\ gstmt' = [gstmt EXCEPT ![g] = "add"]
    /\ UNCHANGED <<run_thread, speed_generator_thread, current_value, noisy_value, t_value,
                   gphase, last_noise, stop_pending, iters_after_stop>>
    /\ UNCHANGED nonVelVars

\* _ramp: `self._current_value += slope`
RampAdd(g) ==
    /\ gphase[g] \in {"ramp_up", "ramp_down"}
    /\ gstmt[g] = "add"
    /\ event' = LoopEvent
    /\ current_value' = current_value + gslope[g]
    /\ gstmt' = [gstmt EXCEPT ![g] = "noise"]
    /\ BeginIteration
    /\ UNCHANGED <<run_thread, speed_generator_thread, noisy_value, t_value,
                   gphase, gi, gslope, last_noise, stop_pending>>
    /\ UNCHANGED nonVelVars

\* _ramp: `self._add_noise()` and `sleep(self._sleep_time)`
RampNoise(g) ==
    /\ gphase[g] \in {"ramp_up", "ramp_down"}
    /\ gstmt[g] = "noise"
    /\ event' = LoopEvent
    /\ \E n \in NoiseSamples : AddNoise(n)
    /\ AdvanceIteration(g)
    /\ UNCHANGED <<run_thread, speed_generator_thread, current_value,
                   gslope, stop_pending, iters_after_stop>>
    /\ UNCHANGED nonVelVars

\* _linear: `self._add_noise()` and `sleep(self._sleep_time)`
LinearNoise(g) ==
    /\ gphase[g] \in {"linear_high", "linear_low"}
    /\ gstmt[g] = "noise"
    /\ event' = LoopEvent
    /\ \E n \in NoiseSamples : AddNoise(n)
    /\ AdvanceIteration(g)
    /\ BeginIteration
    /\ UNCHANGED <<run_thread, speed_generator_thread, current_value,
                   gslope, stop_pending>>
    /\ UNCHANGED nonVelVars

VelocityNext ==
    \/ StartGenerator
    \/ StopGenerator
    \/ \E kind \in ReadKinds, outlier \in OutlierSamples : GetVelocity(kind, outlier)
    \/ \E g \in Loops :
         \/ LoopWhile(g)
         \/ RampSlope(g)
         \/ RampAdd(g)
         \/ RampNoise(g)
         \/ LinearNoise(g)

(* --------------- binary64 arithmetic of _current_value ---------------- *)
\* A Python float is an IEEE-754 binary64. It is held as sign and magnitude,
\* the magnitude a fixed-point number of Limbs limbs of LimbBits bits, limb 1
\* the integer part: every binary64 between 2^-67 and 2^20 is held exactly,
\* and the operations round to nearest, ties to even, as the hardware does.
LimbBits == 20
Limbs == 7
\* significand width of a binary64
Precision == 53

Base == 2 ^ LimbBits
FracBits == LimbBits * (Limbs - 1)

MagZero == [i \in 1..Limbs |-> 0]
MagInt(n) == [i \in 1..Limbs |-> IF i = 1 THEN n ELSE 0]

\* bit k of a magnitude, bit 0 the least significant
Bit(a, k) == (a[Limbs - (k \div LimbBits)] \div (2 ^ (k % LimbBits))) % 2

\* the magnitude with bit k alone set
Unit(k) == [i \in 1..Limbs |-> IF i = Limbs - (k \div LimbBits) THEN 2 ^ (k % LimbBits) ELSE 0]

MagAdd(a, b) ==
    LET C[i \in 0..Limbs] == IF i = Limbs THEN 0 ELSE (a[i + 1] + b[i + 1] + C[i + 1]) \div Base
    IN [i \in 1..Limbs |-> (a[i] + b[i] + C[i]) % Base]

\* a - b for a >= b
MagSub(a, b) ==
    LET W[i \in 0..Limbs] == IF i = Limbs THEN 0
                             ELSE IF a[i + 1] - b[i + 1] - W[i + 1] < 0 THEN 1 ELSE 0
    IN [i \in 1..Limbs |-> (a[i] - b[i] - W[i] + Base) % Base]

MagLess(a, b) ==
    \E i \in 1..Limbs : a[i] < b[i] /\ \A j \in 1..(i - 1) : a[j] = b[j]

\* a with the bits below bit q cleared
Trunc(a, q) ==
    [i \in 1..Limbs |->
        LET lo == LimbBits * (Limbs - i)
        IN IF lo >= q THEN a[i]
           ELSE IF lo + LimbBits <= q THEN 0
           ELSE (a[i] \div (2 ^ (q - lo))) * (2 ^ (q - lo))]

\* position of the leading bit of a non-zero magnitude
TopBit(a) ==
    LET i == CHOOSE j \in 1..Limbs : a[j] # 0 /\ \A k \in 1..(j - 1) : a[k] = 0
        b == CHOOSE c \in 0..(LimbBits - 1) : a[i] \div (2 ^ c) = 1
    IN LimbBits * (Limbs - i) + b

\* round to nearest, ties to even, to Precision significant bits; sticky says
\* that the exact value has further bits below the last place of a
Round(a, sticky) ==
    IF a = MagZero THEN a
    ELSE LET q == TopBit(a) - (Precision - 1)
         IN IF q <= 0 THEN a
            ELSE LET t == Trunc(a, q)
                     half == Bit(a, q - 1) = 1
                     rest == sticky \/ Trunc(a, q - 1) # a
                 IN IF half /\ (rest \/ Bit(a, q) = 1) THEN MagAdd(t, Unit(q)) ELSE t

\* quotient of a by the small integer d, and whether a remainder is left
MagDiv(a, d) ==
    LET R[i \in 0..Limbs] == IF i = 0 THEN 0 ELSE (R[i - 1] * Base + a[i]) % d
    IN [quot |-> [i \in 1..Limbs |-> (R[i - 1] * Base + a[i]) \div d], inexact |-> R[Limbs] # 0]

\* the float of the integer n
Float(n) == [neg |-> n < 0, mag |-> MagInt(IF n < 0 THEN -n ELSE n)]

Norm(x) == IF x.mag = MagZero THEN [neg |-> FALSE, mag |-> MagZero] ELSE x

FNeg(x) == Norm([neg |-> ~x.neg, mag |-> x.mag])

\* x + y
FAdd(x, y) ==
    IF x.neg = y.neg THEN [neg |-> x.neg, mag |-> Round(MagAdd(x.mag, y.mag), FALSE)]
    ELSE IF MagLess(x.mag, y.mag) THEN [neg |-> y.neg, mag |-> Round(MagSub(y.mag, x.mag), FALSE)]
    ELSE Norm([neg |-> x.neg, mag |-> Round(MagSub(x.mag, y.mag), FALSE)])

\* x - y
FSub(x, y) == FAdd(x, FNeg(y))

\* x / d for an integer d
FDiv(x, d) ==
    LET r == MagDiv(x.mag, d)
    IN Norm([neg |-> x.neg, mag |-> Round(r.quot, r.inexact)])

\* x <= y
FLeq(x, y) ==
    IF x.neg /\ ~y.neg THEN TRUE
    ELSE IF ~x.neg /\ y.neg THEN FALSE
    ELSE IF x.neg THEN ~MagLess(x.mag, y.mag)
    ELSE ~MagLess(y.mag, x.mag)

\* the limbs are multiplied as digits of half their width, so that a product
\* of two digits stays below 2^31
HalfBase == 2 ^ (LimbBits \div 2)
HalfDigits == 2 * Limbs

\* digit j of a magnitude, digit 1 the most significant
Digit(a, j) ==
    IF j % 2 = 1 THEN a[(j + 1) \div 2] \div HalfBase ELSE a[(j + 1) \div 2] % HalfBase

\* column r of the schoolbook product: the sum of the products of the
\* half-limb digits whose weights multiply to HalfBase^(-r) relative to the top
Column(a, b, r) ==
    LET lo == IF r + 2 - HalfDigits > 1 THEN r + 2 - HalfDigits ELSE 1
        hi == IF r + 1 < HalfDigits THEN r + 1 ELSE HalfDigits
        T[j \in (lo - 1)..hi] ==
            IF j = lo - 1 THEN 0 ELSE T[j - 1] + Digit(a, j) * Digit(b, r + 2 - j)
    IN T[hi]

\* the digits of the product, from column r leftwards with the carry of the
\* columns to its right, put in front of the digits already known
RECURSIVE Columns(_, _, _, _, _)
Columns(a, b, r, carry, digits) ==
    IF r = 0 THEN digits
    ELSE LET t == Column(a, b, r) + carry
         IN Columns(a, b, r - 1, t \div HalfBase, <<t % HalfBase>> \o digits)

\* the exact product of two magnitudes below 2^(LimbBits \div 2): its first
\* Limbs limbs, and whether anything non-zero lies below them
MagMul(a, b) ==
    LET last == 2 * HalfDigits - 2
        D == Columns(a, b, last, 0, <<>>)
    IN [prod |-> [i \in 1..Limbs |-> D[2 * i - 1] * HalfBase + D[2 * i]],
        inexact |-> \E r \in (HalfDigits + 1)..last : D[r] # 0]

\* x * y
FMul(x, y) ==
    LET p == MagMul(x.mag, y.mag)
    IN Norm([neg |-> x.neg # y.neg, mag |-> Round(p.prod, p.inexact)])

\* acc + x * y with a single rounding (fused multiply-add), for operands of
\* the same sign
FFma(acc, x, y) ==
    LET p == MagMul(x.mag, y.mag)
    IN Norm([neg |-> acc.neg, mag |-> Round(MagAdd(acc.mag, p.prod), p.inexact)])

(* --------- the generation loop with binary64 _current_value ----------- *)
\* the target_value argument of the two _ramp calls
RampTarget(phase) ==
    IF phase = "ramp_up" THEN MaximumValueWithoutNoise ELSE MinimumValueWithoutNoise

\* VelocityGenerator.__init__
RampInit ==
    /\ f_run = FALSE
    /\ f_phase = "unborn"
    /\ f_stmt = "-"
    /\ f_i = 0
    /\ f_slope = Float(0)
    /\ f_current = Float(0)
    /\ f_cycles = 0

\* start_generator(): no thread yet, or the old one has returned
FloatStart ==
    /\ f_phase \in {"unborn", "done"}
    /\ f_run' = TRUE
    /\ f_phase' = "while"
    /\ UNCHANGED <<f_stmt, f_i, f_slope, f_current, f_cycles>>
    /\ UNCHANGED nonRampVars

\* stop_generator()
FloatStop ==
    /\ f_run
    /\ f_run' = FALSE
    /\ UNCHANGED <<f_phase, f_stmt, f_i, f_slope, f_current, f_cycles>>
    /\ UNCHANGED nonRampVars

\* _generate_speed_values: `while self._run_thread:`
FloatWhile ==
    /\ f_phase = "while"
    /\ IF f_run
         THEN /\ f_cycles < MaxCycles
              /\ f_cycles' = f_cycles + 1
              /\ f_phase' = "ramp_up"
              /\ f_stmt' = "slope"
         ELSE /\ f_phase' = "done"
              /\ UNCHANGED <<f_stmt, f_cycles>>
    /\ UNCHANGED <<f_run, f_i, f_slope, f_current>>
    /\ UNCHANGED nonRampVars

\* _ramp: `slope = (target_value - self._current_value) / iterations`
FloatRampSlope ==
    /\ f_phase \in {"ramp_up", "ramp_down"}
    /\ f_stmt = "slope"
    /\ f_slope' = FDiv(FSub(Float(RampTarget(f_phase)), f_current), Iterations(f_phase))
    /\ f_i' = 0
    /\ f_stmt' = "add"
    /\ UNCHANGED <<f_run, f_phase, f_current, f_cycles>>
    /\ UNCHANGED nonRampVars

\* _ramp: `self._current_value += slope`
FloatRampAdd ==
    /\ f_phase \in {"ramp_up", "ramp_down"}
    /\ f_stmt = "add"
    /\ f_current' = FAdd(f_current, f_slope)
    /\ f_stmt' = "noise"
    /\ UNCHANGED <<f_run, f_phase, f_i, f_slope, f_cycles>>
    /\ UNCHANGED nonRampVars

\* _ramp/_linear: `self._add_noise()`, which writes _noisy_value only, and
\* `sleep(self._sleep_time)`; then the for loop goes on or the call returns
FloatNoise ==
    /\ f_phase \in {"ramp_up", "linear_high", "ramp_down", "linear_low"}
    /\ f_stmt = "noise"
    /\ IF f_i + 1 < Iterations(f_phase)
         THEN /\ f_i' = f_i + 1
              /\ f_stmt' = IF f_phase \in {"ramp_up", "ramp_down"} THEN "add" ELSE "noise"
              /\ UNCHANGED f_phase
         ELSE /\ f_i' = 0
              /\ f_phase' = NextPhase(f_phase)
              /\ f_stmt' = FirstStmt(NextPhase(f_phase))
    /\ UNCHANGED <<f_run, f_slope, f_current, f_cycles>>
    /\ UNCHANGED nonRampVars

RampNext ==
    \/ FloatStart
    \/ FloatStop
    \/ FloatWhile
    \/ FloatRampSlope
    \/ FloatRampAdd
    \/ FloatNoise

(* ---------------------- find_optimal_frequency ------------------------ *)
DECIMAL_PLACES == 3
CAMERAS_VERTICAL_VIEW_FIELD == 25
MINIMUN_CAMERA_FREQUENCY == FDiv(Float(1), 1000)

\* variant: the search steps by 0.025
FrequencyStepHalved == FDiv(Float(5), 200)

\* the literal 0.05 of `frequency -= 0.05`
FrequencyStep == FDiv(Float(5), 100)

\* x < y
FLess(x, y) == ~FLeq(y, x)

\* the exact product of a magnitude and a small integer
MagMulInt(a, n) ==
    LET C[i \in 0..Limbs] == IF i = Limbs THEN 0 ELSE (a[i + 1] * n + C[i + 1]) \div Base
    IN [i \in 1..Limbs |-> IF i = 1 THEN a[i] * n + C[i] ELSE (a[i] * n + C[i]) % Base]

\* the integer nearest to a magnitude, ties to even
MagNearest(a) ==
    LET half == Bit(a, FracBits - 1) = 1
        rest == Trunc(a, FracBits - 1) # a
    IN IF half /\ (rest \/ a[1] % 2 = 1) THEN a[1] + 1 ELSE a[1]

\* variant: round() hands its argument back
PyRoundIdentity(x, places) == x

\* round(x, places): the float nearest to the decimal with `places` digits
\* that is nearest to x
PyRound(x, places) ==
    Norm([neg |-> x.neg,
          mag |-> FDiv(Float(MagNearest(MagMulInt(x.mag, 10 ^ places))), 10 ^ places).mag])

\* displacements get_velocity_and_displacement may hand back, in units of
\* 10^-DECIMAL_PLACES: just inside, on and just outside the field of view
DisplacementSamples ==
    {CAMERAS_VERTICAL_VIEW_FIELD * 10 ^ DECIMAL_PLACES + e : e \in {-1, 0, 1}}

\* variant: a displacement equal to the field of view does not fit
FitsStrict(d) == d < CAMERAS_VERTICAL_VIEW_FIELD * 10 ^ DECIMAL_PLACES

\* `displacement <= CAMERAS_VERTICAL_VIEW_FIELD`
Fits(d) == d <= CAMERAS_VERTICAL_VIEW_FIELD * 10 ^ DECIMAL_PLACES

\* `frequency = 1`, about to enter the loop
SearchInit ==
    /\ fo_pc = "measure"
    /\ frequency = Float(1)
    /\ displacement = 0
    /\ fo_result = Float(0)
    /\ measured = <<>>

\* `_, displacement = get_velocity_and_displacement(velocity_controller, frequency)`
FindMeasure ==
    /\ fo_pc = "measure"
    /\ \E d \in DisplacementSamples :
        /\ displacement' = d
        /\ measured' = Append(measured, [candidate |-> frequency, displacement |-> d])
    /\ fo_pc' = "compare"
    /\ UNCHANGED <<frequency, fo_result>>
    /\ UNCHANGED nonSearchVars

\* `if displacement <= CAMERAS_VERTICAL_VIEW_FIELD: return round(frequency, DECIMAL_PLACES)`
FindCompare ==
    /\ fo_pc = "compare"
    /\ IF Fits(displacement)
         THEN /\ fo_result' = PyRound(frequency, DECIMAL_PLACES)
              /\ fo_pc' = "returned"
         ELSE /\ fo_pc' = "decrement"
              /\ UNCHANGED fo_result
    /\ UNCHANGED <<frequency, displacement, measured>>
    /\ UNCHANGED nonSearchVars

\* `frequency -= 0.05`
FindDecrement ==
    /\ fo_pc = "decrement"
    /\ frequency' = FSub(frequency, FrequencyStep)
    /\ fo_pc' = "floor"
    /\ UNCHANGED <<displacement, fo_result, measured>>
    /\ UNCHANGED nonSearchVars

\* `if frequency < MINIMUN_CAMERA_FREQUENCY: return MINIMUN_CAMERA_FREQUENCY`
FindFloor ==
    /\ fo_pc = "floor"
    /\ IF FLess(frequency, MINIMUN_CAMERA_FREQUENCY)
         THEN /\ fo_result' = MINIMUN_CAMERA_FREQUENCY
              /\ fo_pc' = "returned"
         ELSE /\ fo_pc' = "measure"
              /\ UNCHANGED fo_result
    /\ UNCHANGED <<frequency, displacement, measured>>
    /\ UNCHANGED nonSearchVars

SearchNext ==
    \/ FindMeasure
    \/ FindCompare
    \/ FindDecrement
    \/ FindFloor

(* -------------------------- measure_velocity -------------------------- *)
VELOCITY_SAMPLES_PER_SECOND == 66

\* the window_size argument of moving_average
WindowSize == 3

\* len(moving_average(data, window_size)) for n = len(data): the data itself
\* when shorter than the window, else the `valid` convolution
FilteredLen(n) == IF n < WindowSize THEN n ELSE n - WindowSize + 1

\* the exception lines 73-78 of get_velocity_and_displacement raise on n
\* samples: filtered_velocity[-1] on an empty list, calculate_displacement on
\* fewer than 2 values
SmoothingError(n) ==
    IF FilteredLen(n) = 0 THEN "IndexError"
    ELSE IF FilteredLen(n) < 2 THEN "ValueError"
    ELSE "-"

\* what requests.post does inside api.surface_movement
DispatchOutcomes == {"created", "failure_status", "exception"}

\* variant: surface_movement lets the exception of requests.post out
SurfaceMovementUnguarded(outcome) == outcome = "exception"

\* whether api.surface_movement raises to its caller: its `except Exception`
\* catches what the transport raises, logs it and returns None
SurfaceMovementRaises(outcome) == FALSE

\* variant: the sensor read waits for the camera's trigger lock
SensorReadBehindTriggerLock == trigger_lock = {}

\* `velocity_controller.get_velocity()` can return: VelocityGenerator.get_velocity
\* takes no lock and waits for nothing
SensorReadReady == TRUE

\* measure_velocity has entered `while True` and called
\* get_velocity_and_displacement(velocity_controller, 1)
MeasureInit ==
    /\ mv_pc = "sample"
    /\ mv_samples = 0
    /\ mv_raised = "-"
    /\ mv_dispatch = "-"

\* `while len(velocity_samples) < samples_number:` with a sample appended
MeasureSample ==
    /\ mv_pc = "sample"
    /\ mv_samples < 1 * VELOCITY_SAMPLES_PER_SECOND
    /\ SensorReadReady
    /\ mv_samples' = mv_samples + 1
    /\ UNCHANGED <<mv_pc, mv_raised, mv_dispatch>>
    /\ UNCHANGED nonMeasureVars

\* `if velocity_sample is None: break`
MeasureBreak ==
    /\ mv_pc = "sample"
    /\ mv_samples < 1 * VELOCITY_SAMPLES_PER_SECOND
    /\ SensorReadReady
    /\ mv_pc' = "smooth"
    /\ UNCHANGED <<mv_samples, mv_raised, mv_dispatch>>
    /\ UNCHANGED nonMeasureVars

\* the while condition is false
MeasureEnough ==
    /\ mv_pc = "sample"
    /\ mv_samples >= 1 * VELOCITY_SAMPLES_PER_SECOND
    /\ mv_pc' = "smooth"
    /\ UNCHANGED <<mv_samples, mv_raised, mv_dispatch>>
    /\ UNCHANGED nonMeasureVars

\* moving_average, filtered_velocity[-1], calculate_displacement; an exception
\* leaves the while loop for `except Exception as e: logger.error(...)`, after
\* which measure_velocity returns
MeasureSmooth ==
    /\ mv_pc = "smooth"
    /\ IF SmoothingError(mv_samples) # "-"
         THEN /\ mv_raised' = SmoothingError(mv_samples)
              /\ mv_pc' = "exited"
         ELSE /\ mv_pc' = "dispatch"
              /\ UNCHANGED mv_raised
    /\ UNCHANGED <<mv_samples, mv_dispatch>>
    /\ UNCHANGED nonMeasureVars

\* `api.surface_movement(velocity, displacement)`, then the next pass of
\* `while True`
MeasureDispatch ==
    /\ mv_pc = "dispatch"
    /\ \E outcome \in DispatchOutcomes :
        /\ mv_dispatch' = outcome
        /\ IF SurfaceMovementRaises(outcome)
             THEN /\ mv_raised' = "TransportError"
                  /\ mv_pc' = "exited"
                  /\ UNCHANGED mv_samples
             ELSE /\ mv_pc' = "sample"
                  /\ mv_samples' = 0
                  /\ UNCHANGED mv_raised
    /\ UNCHANGED nonMeasureVars

MeasureNext ==
    \/ MeasureSample
    \/ MeasureBreak
    \/ MeasureEnough
    \/ MeasureSmooth
    \/ MeasureDispatch

(* --------------------------- capture_images --------------------------- *)
\* the camera client that runs capture_images; the controller is created
\* inside the function, so no other thread calls it
CaptureThread == 1

Dispatches == 1..MaxCaptureCycles

\* variant: blue is captured before green
LightOrderReversed == <<"BLUE", "GREEN">>

\* `[LightType.GREEN, LightType.BLUE]`
LightOrder == <<"GREEN", "BLUE">>

\* variant: the loop goes on only when the dispatch threads have finished
StartReturnsWhenDone(task) == task \in {"unborn", "done"}

\* `images_thread.start()` returns as soon as the thread runs, whatever the
\* thread does; the joins of capture_images come after the while loop
StartReturns(task) == TRUE

\* velocity_controller.get_velocity() as get_light reads it, in cm/min
VelocityReadings == {0, 50, 100}

\* seconds between two time.time() reads of get_light: the capture delay of
\* collect_pictures lies between them
ElapsedSamples == {3, 4, 5}

\* the dict get_light builds: `time_elapsed = current_time - last_capture_time`,
\* `displacement = velocity * time_elapsed`
GetLight(light_type, velocity, current_time, reference) ==
    [light |-> light_type,
     surface_velocity |-> velocity,
     creation_time |-> current_time,
     time_elapsed |-> current_time - reference,
     surface_displacement |-> velocity * (current_time - reference)]

\* capture_images after `cameras_controller = CamerasController()`
CaptureInit ==
    /\ cap_pc = "open"
    /\ cap_idx = 1
    /\ lights = <<>>
    /\ cap_exc = "-"
    /\ cap_cycles = 0
    /\ tasks = [k \in Dispatches |-> "unborn"]
    /\ batches = [k \in Dispatches |-> <<>>]
    /\ cap_trace = <<>>
    /\ clock = 0
    /\ last_capture_time = 0
    /\ last_light = <<>>
    /\ prev_light_time = 0

\* `cameras_controller.open_cameras()`
CaptureOpen ==
    /\ cap_pc = "open"
    /\ Invoke(CaptureThread, "open")
    /\ cap_pc' = "opening"
    /\ UNCHANGED <<cap_idx, lights, cap_exc, cap_cycles, tasks, batches, cap_trace>>
    /\ UNCHANGED <<clock, last_capture_time, last_light, prev_light_time>>
    /\ UNCHANGED nonCaptureVars

\* open_cameras() has returned; `last_capture_time = time.time()`, `threads = []`
CaptureOpened ==
    /\ cap_pc = "opening"
    /\ pc[CaptureThread] = "idle"
    /\ cap_pc' = "cycle"
    /\ UNCHANGED <<cap_idx, lights, cap_exc, cap_cycles, tasks, batches, cap_trace>>
    /\ UNCHANGED camVars
    /\ last_capture_time' = clock
    /\ prev_light_time' = clock
    /\ UNCHANGED <<clock, last_light>>
    /\ UNCHANGED nonCaptureVars

\* `while True:`, `try:`, `lights = []`, first pass of the for loop
CaptureBeginCycle ==
    /\ cap_pc = "cycle"
    /\ cap_cycles < MaxCaptureCycles
    /\ cap_cycles' = cap_cycles + 1
    /\ lights' = <<>>
    /\ cap_idx' = 1
    /\ cap_trace' = <<>>
    /\ cap_pc' = "trigger"
    /\ UNCHANGED <<cap_exc, tasks, batches>>
    /\ UNCHANGED camVars
    /\ UNCHANGED <<clock, last_capture_time, last_light, prev_light_time>>
    /\ UNCHANGED nonCaptureVars

\* `cameras_controller.trigger()`
CaptureTrigger ==
    /\ cap_pc = "trigger"
    /\ Invoke(CaptureThread, "trigger")
    /\ cap_trace' = Append(cap_trace, <<"trigger", LightOrder[cap_idx]>>)
    /\ cap_pc' = "triggering"
    /\ UNCHANGED <<cap_idx, lights, cap_exc, cap_cycles, tasks, batches>>
    /\ UNCHANGED <<clock, last_capture_time, last_light, prev_light_time>>
    /\ UNCHANGED nonCaptureVars

\* trigger() has returned (its result is not looked at) or raised; an
\* exception other than PictureNotReadyError goes through `finally`
CaptureTriggered ==
    /\ cap_pc = "triggering"
    /\ pc[CaptureThread] = "idle"
    /\ IF res[CaptureThread] \in {"True", "False"}
         THEN /\ cap_pc' = "collect"
              /\ UNCHANGED cap_exc
         ELSE /\ cap_pc' = "sleep"
              /\ cap_exc' = res[CaptureThread]
    /\ UNCHANGED <<cap_idx, lights, cap_cycles, tasks, batches, cap_trace>>
    /\ UNCHANGED camVars
    /\ UNCHANGED <<clock, last_capture_time, last_light, prev_light_time>>
    /\ UNCHANGED nonCaptureVars

\* `camera_data = cameras_controller.collect_pictures(light_type)`
CaptureCollect ==
    /\ cap_pc = "collect"
    /\ Invoke(CaptureThread, "collect")
    /\ cap_trace' = Append(cap_trace, <<"collect", LightOrder[cap_idx]>>)
    /\ cap_pc' = "collecting"
    /\ UNCHANGED <<cap_idx, lights, cap_exc, cap_cycles, tasks, batches>>
    /\ UNCHANGED <<clock, last_capture_time, last_light, prev_light_time>>
    /\ UNCHANGED nonCaptureVars

\* collect_pictures() has returned: `lights.append(get_light(light_type,
\* camera_data, last_capture_time))` and the next pass of the for loop. The
\* `last_capture_time = current_time` of get_light assigns its own parameter,
\* so the variable of capture_images keeps its value. Or the call has raised: `except PictureNotReadyError:`
\* logs a warning, any other exception goes through `finally`
CaptureCollected ==
    /\ cap_pc = "collecting"
    /\ pc[CaptureThread] = "idle"
    /\ CASE res[CaptureThread] = "Pictures" ->
              /\ lights' = Append(lights, LightOrder[cap_idx])
              /\ \E velocity \in VelocityReadings, elapsed \in ElapsedSamples :
                    /\ clock' = clock + elapsed
                    /\ last_light' = GetLight(LightOrder[cap_idx], velocity, clock + elapsed,
                                              last_capture_time)
                    /\ prev_light_time' = clock
              /\ IF cap_idx < Len(LightOrder)
                   THEN cap_idx' = cap_idx + 1 /\ cap_pc' = "trigger"
                   ELSE cap_idx' = cap_idx /\ cap_pc' = "dispatch"
              /\ UNCHANGED cap_exc
         [] res[CaptureThread] = "PictureNotReadyError" ->
              /\ cap_pc' = "sleep"
              /\ UNCHANGED <<cap_idx, lights, cap_exc, clock, last_light, prev_light_time>>
         [] OTHER ->
              /\ cap_pc' = "sleep"
              /\ cap_exc' = res[CaptureThread]
              /\ UNCHANGED <<cap_idx, lights, clock, last_light, prev_light_time>>
    /\ UNCHANGED last_capture_time
    /\ UNCHANGED <<cap_cycles, tasks, batches, cap_trace>>
    /\ UNCHANGED camVars
    /\ UNCHANGED nonCaptureVars

\* `images_thread = threading.Thread(target=api.pictures_batch, args=(lights,))`,
\* `images_thread.start()`, `threads.append(images_thread)`
CaptureDispatch ==
    /\ cap_pc = "dispatch"
    /\ tasks' = [tasks EXCEPT ![cap_cycles] = "encode"]
    /\ batches' = [batches EXCEPT ![cap_cycles] = lights]
    /\ cap_pc' = "sleep"
    /\ UNCHANGED <<cap_idx, lights, cap_exc, cap_cycles, cap_trace>>
    /\ UNCHANGED camVars
    /\ UNCHANGED <<clock, last_capture_time, last_light, prev_light_time>>
    /\ UNCHANGED nonCaptureVars

\* `finally: time.sleep(frequency)`, then the next pass of `while True`, or
\* the pending exception leaves capture_images
CaptureSleep ==
    /\ cap_pc = "sleep"
    /\ \A k \in Dispatches : StartReturns(tasks[k])
    /\ cap_pc' = IF cap_exc = "-" THEN "cycle" ELSE "exited"
    /\ UNCHANGED <<cap_idx, lights, cap_exc, cap_cycles, tasks, batches, cap_trace>>
    /\ UNCHANGED camVars
    /\ UNCHANGED <<clock, last_capture_time, last_light, prev_light_time>>
    /\ UNCHANGED nonCaptureVars

\* api.pictures_batch in its own thread: the base64 encoding of the pictures
DispatchEncode(k) ==
    /\ tasks[k] = "encode"
    /\ tasks' = [tasks EXCEPT ![k] = "post"]
    /\ UNCHANGED <<cap_pc, cap_idx, lights, cap_exc, cap_cycles, batches, cap_trace>>
    /\ UNCHANGED camVars
    /\ UNCHANGED <<clock, last_capture_time, last_light, prev_light_time>>
    /\ UNCHANGED nonCaptureVars

\* api.pictures_batch: requests.post returns or raises (caught and logged
\* there); until then the thread is blocked in the call
DispatchPost(k) ==
    /\ tasks[k] = "post"
    /\ tasks' = [tasks EXCEPT ![k] = "done"]
    /\ UNCHANGED <<cap_pc, cap_idx, lights, cap_exc, cap_cycles, batches, cap_trace>>
    /\ UNCHANGED camVars
    /\ UNCHANGED <<clock, last_capture_time, last_light, prev_light_time>>
    /\ UNCHANGED nonCaptureVars

CaptureNext ==
    \/ CaptureOpen
    \/ CaptureOpened
    \/ CaptureBeginCycle
    \/ CaptureTrigger
    \/ CaptureTriggered
    \/ CaptureCollect
    \/ CaptureCollected
    \/ CaptureDispatch
    \/ CaptureSleep
    \/ \E k \in Dispatches : DispatchEncode(k)
    \/ \E k \in Dispatches : DispatchPost(k)
    \/ OpenAcquire(CaptureThread)
    \/ OpenSet(CaptureThread)
    \/ ReadyAcquire(CaptureThread)
    \/ ReadyCheck(CaptureThread)
    \/ TriggerAcquire(CaptureThread)
    \/ TriggerCheck(CaptureThread)
    \/ TriggerSet(CaptureThread)
    \/ CollectAcquire(CaptureThread)
    \/ CollectCheck(CaptureThread)
    \/ CollectGetPictures(CaptureThread)
    \/ CollectSleep(CaptureThread)
    \/ CollectClear(CaptureThread)

(* ------------------------------ __main__ ------------------------------ *)
\* both threads started, the main thread at `velocity_thread.join()`
MainInit == main_pc = "join_velocity"

\* `velocity_thread.join()` returns when measure_velocity has returned
MainJoinVelocity ==
    /\ main_pc = "join_velocity"
    /\ mv_pc = "exited"
    /\ main_pc' = "join_images"
    /\ UNCHANGED <<camVars, velVars, rampVars, searchVars, measureVars, captureVars, signalVars>>

\* `images_thread.join()` returns when capture_images has returned
MainJoinImages ==
    /\ main_pc = "join_images"
    /\ cap_pc = "exited"
    /\ main_pc' = "cleanup"
    /\ UNCHANGED <<camVars, velVars, rampVars, searchVars, measureVars, captureVars, signalVars>>

\* `finally: velocity_controller.stop_sensor()`
MainCleanup ==
    /\ main_pc = "cleanup"
    /\ main_pc' = "done"
    /\ UNCHANGED <<camVars, velVars, rampVars, searchVars, measureVars, captureVars, signalVars>>

\* the first pass of the capture loop; the two loops are followed together
\* through this pass, every later pass repeats it
FirstCycle ==
    /\ cap_cycles = 0
    /\ CaptureBeginCycle

\* the measurement thread, the capture thread with its dispatch threads, and
\* the main thread that joins them
RigNext ==
    \/ MeasureSample
    \/ MeasureBreak
    \/ MeasureEnough
    \/ MeasureSmooth
    \/ MeasureDispatch
    \/ CaptureOpen
    \/ CaptureOpened
    \/ FirstCycle
    \/ CaptureTrigger
    \/ CaptureTriggered
    \/ CaptureCollect
    \/ CaptureCollected
    \/ CaptureDispatch
    \/ CaptureSleep
    \/ \E k \in Dispatches : DispatchEncode(k)
    \/ \E k \in Dispatches : DispatchPost(k)
    \/ OpenAcquire(CaptureThread)
    \/ OpenSet(CaptureThread)
    \/ ReadyAcquire(CaptureThread)
    \/ ReadyCheck(CaptureThread)
    \/ TriggerAcquire(CaptureThread)
    \/ TriggerCheck(CaptureThread)
    \/ TriggerSet(CaptureThread)
    \/ CollectAcquire(CaptureThread)
    \/ CollectCheck(CaptureThread)
    \/ CollectGetPictures(CaptureThread)
    \/ CollectSleep(CaptureThread)
    \/ CollectClear(CaptureThread)
    \/ MainJoinVelocity
    \/ MainJoinImages
    \/ MainCleanup

(* ------- moving_average, calculate_displacement, the measurement ------ *)
nonSignalVars == <<camVars, velVars, rampVars, searchVars, measureVars, captureVars, mainVars>>

\* the float n / 10
Sample(n) == FDiv(Float(n), 10)

\* the element of a one-element set; {e : v \in {x}} binds the value of x to v
\* once, as an assignment of the source does
Sole(S) == CHOOSE r \in S : TRUE

\* variant: the kernel is numpy.ones(window_size)
KernelOnes(w) == Float(1)

\* an element of `numpy.ones(window_size) / window_size`
Kernel(w) == FDiv(Float(1), w)

\* one output of numpy.convolve(data, kernel, mode='valid'): the dot product
\* of the window that starts at i with the kernel, accumulated from 0.0 in
\* index order; the build decides whether each step is a product and a sum,
\* each rounded, or one fused multiply-add
Dot(data, i, w, fused) ==
    LET Acc[j \in 0..w] ==
            IF j = 0 THEN Float(0)
            ELSE Sole({IF fused THEN FFma(acc, sample, Kernel(w))
                       ELSE FAdd(acc, FMul(sample, Kernel(w))) :
                       acc \in {Acc[j - 1]}, sample \in {data[i + j - 1]}})
    IN Acc[w]

\* moving_average(data, window_size)
MovingAverage(data, w, fused) ==
    IF Len(data) < w THEN data
    ELSE LET Out[n \in 0..(Len(data) - w + 1)] ==
                 IF n = 0 THEN <<>> ELSE Append(Out[n - 1], Dot(data, n, w, fused))
         IN Out[Len(data) - w + 1]

\* variant: one sample is taken as enough
InsufficientDataBelowOne(n) == n < 1

\* `if len(velocity_data) < 2: raise ValueError`
InsufficientData(n) == n < 2

\* variant: the pair of samples is added, not averaged
TrapezoidWeightOne == Float(1)

\* the literal 0.5 of the trapezoidal rule
TrapezoidWeight == FDiv(Float(1), 2)

\* calculate_displacement(velocity_data, time_interval)
CalculateDisplacement(velocity_data, time_interval) ==
    IF InsufficientData(Len(velocity_data)) THEN [raised |-> "ValueError", value |-> Float(0)]
    ELSE LET Sum[i \in 0..(Len(velocity_data) - 1)] ==
                 IF i = 0 THEN Float(0)
                 ELSE Sole({Sole({FAdd(displacement_so_far, term) :
                                  term \in {FMul(FMul(TrapezoidWeight, pair), time_interval)}}) :
                            displacement_so_far \in {Sum[i - 1]},
                            pair \in {FAdd(velocity_data[i], velocity_data[i + 1])}})
         IN Sole({[raised |-> "-", value |-> PyRound(total, DECIMAL_PLACES)] :
                  total \in {Sum[Len(velocity_data) - 1]}})

\* variant: the batch ends only when the controller runs dry
GatheredUntilNone(readings, samples_number) == Len(readings)

\* `while len(velocity_samples) < samples_number`, left early by the first
\* None: the number of samples appended
Gathered(readings, samples_number) ==
    Cardinality({n \in 0..(Len(readings) - 1) : FLess(Float(n), samples_number)})

\* get_velocity_and_displacement(velocity_controller, time_interval) on a
\* controller that hands out `readings` and then None
GetVelocityAndDisplacement(readings, time_interval, fused) ==
    Sole({Sole({Sole({[reads |-> IF FLess(Float(gathered), samples_number)
                                   THEN gathered + 1 ELSE gathered,
                       samples |-> gathered,
                       raised |-> IF Len(filtered_velocity) = 0 THEN "IndexError"
                                  ELSE calculated.raised,
                       velocity |-> IF Len(filtered_velocity) = 0 THEN Float(0)
                                    ELSE PyRound(filtered_velocity[Len(filtered_velocity)],
                                                 DECIMAL_PLACES),
                       displacement |-> calculated.value] :
                      calculated \in {CalculateDisplacement(filtered_velocity, time_interval)}}) :
                filtered_velocity \in {MovingAverage(SubSeq(readings, 1, gathered),
                                                     WindowSize, fused)}}) :
          samples_number \in {FMul(time_interval, Float(VELOCITY_SAMPLES_PER_SECOND))},
          gathered \in {Gathered(readings, FMul(time_interval, Float(VELOCITY_SAMPLES_PER_SECOND)))}})

\* a surface that starts at 0.1 m/s and gains 0 or 0.1 m/s from one sample to
\* the next, in tenths of m/s
Rising(steps) ==
    [i \in 1..(Len(steps) + 1) |-> 1 + Cardinality({k \in 1..(i - 1) : steps[k] = 1})]

\* the same samples in the opposite order: a surface that slows down
Falling(steps) ==
    [i \in 1..(Len(steps) + 1) |-> Rising(steps)[Len(steps) + 2 - i]]

\* the sample sequences handed in: none, or up to MaxSamples samples of a
\* surface that speeds up or slows down
SampleSequences ==
    LET Steps == UNION {[1..n -> {0, 1}] : n \in 0..(MaxSamples - 1)}
    IN {<<>>} \cup {Rising(steps) : steps \in Steps} \cup {Falling(steps) : steps \in Steps}

\* the time_interval arguments: of measure_velocity (1) and of the last
\* candidate of find_optimal_frequency (0.05)
IntervalSamples == {Float(1), FDiv(Float(5), 100)}

\* no call of the signal functions is followed
SignalIdle ==
    /\ velocities = <<>>
    /\ sg_out = "idle"

\* a caller about to hand in a sample sequence
SignalInit ==
    /\ velocities \in SampleSequences
    /\ sg_out = <<>>

\* a call moving_average(data, window_size)
CallMovingAverage ==
    /\ sg_out = <<>>
    /\ \E w \in 1..MaxWindow, fused \in BOOLEAN :
        sg_out' = [fn |-> "moving_average", window_size |-> w, fused |-> fused,
                   value |-> MovingAverage([i \in 1..Len(velocities) |-> Sample(velocities[i])],
                                           w, fused)]
    /\ UNCHANGED velocities
    /\ UNCHANGED nonSignalVars

\* a call calculate_displacement(velocity_data, time_interval)
CallCalculateDisplacement ==
    /\ sg_out = <<>>
    /\ \E dt \in {1, 2} :
        \E r \in {CalculateDisplacement([i \in 1..Len(velocities) |-> Sample(velocities[i])],
                                        Float(dt))} :
           sg_out' = [fn |-> "calculate_displacement", time_interval |-> dt,
                      raised |-> r.raised, value |-> r.value]
    /\ UNCHANGED velocities
    /\ UNCHANGED nonSignalVars

\* a call get_velocity_and_displacement(velocity_controller, time_interval)
CallGetVelocityAndDisplacement ==
    /\ sg_out = <<>>
    /\ \E interval \in IntervalSamples, fused \in BOOLEAN :
        \E r \in {GetVelocityAndDisplacement([i \in 1..Len(velocities) |-> Sample(velocities[i])],
                                             interval, fused)} :
           sg_out' = [fn |-> "get_velocity_and_displacement", time_interval |-> interval,
                      reads |-> r.reads, samples |-> r.samples, raised |-> r.raised,
                      velocity |-> r.velocity, displacement |-> r.displacement]
    /\ UNCHANGED velocities
    /\ UNCHANGED nonSignalVars

SignalNext ==
    \/ CallMovingAverage
    \/ CallCalculateDisplacement
    \/ CallGetVelocityAndDisplacement

Init ==
    /\ CameraInit /\ VelocityInit /\ RampInit /\ SearchInit /\ MeasureInit /\ CaptureInit
    /\ MainInit /\ SignalIdle

\* the same state, with a sample sequence about to be handed to a signal function
InitSignal ==
    /\ CameraInit /\ VelocityInit /\ RampInit /\ SearchInit /\ MeasureInit /\ CaptureInit
    /\ MainInit /\ SignalInit

SpecCamera == Init /\ [][CameraNext]_vars

SpecVelocity == Init /\ [][VelocityNext]_vars

SpecRamp == Init /\ [][RampNext]_vars

SpecSearch == Init /\ [][SearchNext]_vars

SpecMeasure == Init /\ [][MeasureNext]_vars

SpecCapture == Init /\ [][CaptureNext]_vars

SpecRig == Init /\ [][RigNext]_vars

SpecSignal == InitSignal /\ [][SignalNext]_vars

(* ------------------- properties of the camera protocol ---------------- *)
\* outcomes after which the device is armed
ArmedEvents == {"trigger_true", "trigger_false", "collect_not_found"}

\* positions inside `with self._trigger_lock:`
RegionPcs == {"t_chk", "t_set", "c_chk", "c_get", "c_sleep", "c_clear"}

\* thread t leaves collect_pictures() in this step
CollectEnds(t) == op[t] = "collect" /\ pc[t] # "idle" /\ pc'[t] = "idle"

\* C1: a trigger() returns true exactly when the device was idle (nothing done
\* yet, or the previous operation was a successful collect or a collect that
\* found nothing armed) and then leaves it armed; a trigger() on an armed
\* device returns false and leaves it armed; a successful collect() leaves the
\* device idle.
C1_TriggerProtocol ==
    /\ lastEvent = "trigger_true" => prevEvent \in {"none", "collect_ok", "collect_not_ready"}
    /\ lastEvent = "trigger_false" => prevEvent \in ArmedEvents
    /\ lastEvent \in {"trigger_true", "trigger_false"} => trigger
    /\ lastEvent = "collect_ok" => ~trigger
    /\ \A t \in Threads : (op[t] = "trigger" /\ pc[t] = "idle") =>
          res[t] \in {"True", "False", "CamerasNotReadyError"}

\* trigger(), trigger() has returned true then false and the device is armed
C1_Witness ==
    /\ prevEvent = "trigger_true" /\ lastEvent = "trigger_false" /\ trigger
    /\ \E t \in Threads : op[t] = "trigger" /\ pc[t] = "idle" /\ res[t] = "False"

\* C2: in every interleaving of the threads, no two trigger() calls return
\* true without a collect() that disarmed the device between them.
C2_NoDoubleArm == unconsumed <= 1 /\ (trigger <=> unconsumed = 1)

\* a second trigger succeeded after a collect, while another thread is in a call
C2_Witness ==
    /\ prevEvent = "collect_ok" /\ lastEvent = "trigger_true" /\ unconsumed = 1
    /\ \E t \in Threads : pc[t] \in {"t_acq", "c_acq"}

\* C3: whenever a collect() on an armed, opened camera ends, by returning the
\* pictures or by raising, the trigger flag is idle afterwards.
C3_CollectAlwaysDisarms ==
    lastEvent \in {"collect_ok", "collect_not_found"} => ~trigger

\* C4 as stated: a collect() that ends while no trigger is outstanding fails
\* with PictureNotReadyError, whether or not the camera has been opened.
C4_Original ==
    [][\A t \in Threads : (CollectEnds(t) /\ unconsumed = 0) =>
          res'[t] = "PictureNotReadyError"]_vars

\* C4 amended: a collect() that ends while no trigger is outstanding fails with
\* PictureNotReadyError on an opened camera and with CamerasNotReadyError on a
\* camera that has not been opened.
C4_Amended ==
    [][\A t \in Threads : (CollectEnds(t) /\ unconsumed = 0) =>
          res'[t] = IF cameras_ready THEN "PictureNotReadyError"
                                     ELSE "CamerasNotReadyError"]_vars

\* one collect() failed not-ready before open(), another not-yet-triggered after
C4_Witness ==
    /\ cameras_ready /\ unconsumed = 0
    /\ \E t, u \in Threads :
          /\ op[t] = "collect" /\ pc[t] = "idle" /\ res[t] = "PictureNotReadyError"
          /\ op[u] = "collect" /\ pc[u] = "idle" /\ res[u] = "CamerasNotReadyError"

\* C5: while the camera is not open the device is never armed and no call has
\* got as far as the trigger lock; and before any open() every finished
\* trigger() and collect() has failed with CamerasNotReadyError.
C5_NotReadyBeforeOpen ==
    /\ trigger => cameras_ready
    /\ ~cameras_ready => \A t \in Threads : pc[t] \notin RegionPcs \cup {"t_acq", "c_acq"}
    /\ (~cameras_ready /\ \A t \in Threads : op[t] # "open") =>
          \A t \in Threads : (pc[t] = "idle" /\ op[t] \in {"trigger", "collect"}) =>
              res[t] = "CamerasNotReadyError"

\* a trigger() and a collect() have both failed before any open()
C5_Witness ==
    /\ ~cameras_ready /\ ~trigger
    /\ \A t \in Threads : op[t] # "open"
    /\ \E t, u \in Threads :
          /\ op[t] = "trigger" /\ pc[t] = "idle" /\ res[t] = "CamerasNotReadyError"
          /\ op[u] = "collect" /\ pc[u] = "idle" /\ res[u] = "CamerasNotReadyError"

\* C6: at most one thread is inside the region of trigger()/collect(), it is
\* the holder of the trigger lock, and the device is armed from the armed
\* check of collect() through the capture delay up to the disarm.
C6_SingleRegion ==
    /\ \A t, u \in Threads : (pc[t] \in RegionPcs /\ pc[u] \in RegionPcs) => t = u
    /\ \A t \in Threads : pc[t] \in RegionPcs => trigger_lock = {t}
    /\ \A t \in Threads : pc[t] \in {"c_get", "c_sleep", "c_clear"} => trigger

\* a thread waits for the lock while another sleeps the capture delay
C6_Witness ==
    \E t, u \in Threads :
        /\ t # u /\ pc[t] = "c_clear" /\ trigger
        /\ pc[u] \in {"t_acq", "c_acq"}

(* ----------------- properties of the velocity simulator --------------- *)
\* the fields of the waveform state and of the generation loops
waveformState == <<run_thread, speed_generator_thread, current_value, noisy_value, t_value,
                   gphase, gstmt, gi, gslope, last_noise>>

AliveLoops == {g \in Loops : IsAlive(g)}

\* C7: once stop() has been called on a running simulator the generation loop
\* begins no further update iteration beyond the one allowed for the step in
\* progress: at most one iteration begins after the stop.
C7_StopsAfterCurrentStep == iters_after_stop <= 1

\* C8: at most one generation loop is alive at any time, and a start() issued
\* while a loop is alive changes nothing of the simulator.
C8_StartIdempotent ==
    /\ [](Cardinality(AliveLoops) <= 1)
    /\ [][(event'.call = "start" /\ AliveLoops # {}) => UNCHANGED waveformState]_vars

\* start() was the latest call and the loop it found running is in its ramp
C8_Witness ==
    /\ event.call = "start" /\ run_thread
    /\ \E g \in Loops : gphase[g] = "ramp_up" /\ gi[g] > 0

\* C9: in every state, also between the statements of one generation step,
\* noisyValue = currentValue + latest noise sample * noiseCoefficient.
C9_NoisyMatchesCurrent ==
    noisy_value = current_value + last_noise * NoiseCoefficient * Scale

\* C10: a read() leaves the waveform state, the noise cursor, the run flag and
\* the loops unchanged; it returns 0, a value of the outlier range or the noisy
\* value; and every outcome of the outlier decision is possible in every state,
\* whatever the earlier calls were.
C10_ReadIsPure ==
    /\ [](\A kind \in ReadKinds, outlier \in OutlierSamples : ENABLED GetVelocity(kind, outlier))
    /\ [][event'.call = "read" =>
            /\ UNCHANGED waveformState
            /\ event'.kind = "noisy" => event'.value = noisy_value
            /\ event'.kind = "outlier_zero" => event'.value = 0
            /\ event'.kind = "outlier_range" =>
                  /\ event'.value >= MinimumOutlierValue * Scale
                  /\ event'.value <= MaximumOutlierValue * Scale]_vars

\* a read() returned an outlier while the loop was ramping
C10_Witness ==
    /\ event.call = "read" /\ event.kind = "outlier_range"
    /\ current_value > 0 /\ event.value # noisy_value
    /\ \E g \in Loops : gphase[g] = "ramp_up" /\ gstmt[g] = "noise"

\* no start_generator() has created a thread yet
NeverStarted == \A g \in Loops : gphase[g] = "unborn"

\* C11: a read() before start() that is not an outlier returns the initial
\* value 0; and once stop() has been called on the running simulator the
\* internal noisy value no longer changes, so every later read() returns the
\* same last internal value.
C11_ReadBeforeStartAfterStop ==
    [][/\ (event'.call = "read" /\ event'.kind = "noisy" /\ NeverStarted) => event'.value = 0
       /\ stop_pending => noisy_value' = noisy_value]_vars

(* ------------- properties of the waveform in binary64 ----------------- *)
\* the order of the statements of the loop, with the iterations each one makes
PhaseOrder ==
    {<<"ramp_up", "linear_high", RampUpIterations>>,
     <<"linear_high", "ramp_down", HighIterations>>,
     <<"ramp_down", "linear_low", RampDownIterations>>,
     <<"linear_low", "while", LowIterations>>}

\* the steps of the loop follow the fixed order of phases
FollowsPhaseOrder ==
    f_phase' # f_phase =>
        \/ f_phase \in {"unborn", "done"} /\ f_phase' = "while"
        \/ f_phase = "while" /\ f_phase' = IF f_run THEN "ramp_up" ELSE "done"
        \/ <<f_phase, f_phase', f_i + 1>> \in PhaseOrder

\* rounding error allowed for _current_value: 2^-36, about 1.5e-11
Tolerance == [neg |-> FALSE, mag |-> Unit(FracBits - 36)]

\* |x - n| <= Tolerance
Near(x, n) ==
    /\ FLeq(FSub(Float(n), Tolerance), x)
    /\ FLeq(x, FAdd(Float(n), Tolerance))

\* C12 as stated: the phases follow the fixed order, the noise-free value
\* stays within [0, 100], equals the ramp target when each ramp ends and does
\* not change during a plateau.
C12_Original ==
    /\ [](/\ FLeq(Float(MinimumValueWithoutNoise), f_current)
          /\ FLeq(f_current, Float(MaximumValueWithoutNoise))
          /\ f_phase = "linear_high" => f_current = Float(MaximumValueWithoutNoise)
          /\ f_phase = "linear_low" => f_current = Float(MinimumValueWithoutNoise))
    /\ [][/\ FollowsPhaseOrder
          /\ f_phase \in {"linear_high", "linear_low"} => f_current' = f_current]_vars

\* C12 amended: the phases follow the fixed order, the noise-free value stays
\* within [0, 100] up to the rounding error of the float additions, is within
\* that error of the ramp target when each ramp ends and does not change
\* during a plateau.
C12_Amended ==
    /\ [](/\ FLeq(FNeg(Tolerance), f_current)
          /\ FLeq(f_current, FAdd(Float(MaximumValueWithoutNoise), Tolerance))
          /\ f_phase = "linear_high" => Near(f_current, MaximumValueWithoutNoise)
          /\ f_phase = "linear_low" => Near(f_current, MinimumValueWithoutNoise))
    /\ [][/\ FollowsPhaseOrder
          /\ f_phase \in {"linear_high", "linear_low"} => f_current' = f_current]_vars

\* the low plateau of the second cycle, on a value that is not exactly 0
C12_Witness ==
    /\ f_cycles = 2 /\ f_phase = "linear_low" /\ f_i > 0
    /\ f_current # Float(MinimumValueWithoutNoise)

(* ------------------ properties of the frequency search ---------------- *)
\* the decimal n / 10^DECIMAL_PLACES as a float
Decimal(n) == FDiv(Float(n), 10 ^ DECIMAL_PLACES)

\* the i-th candidate of the scan 1.0, 0.95, 0.90, ...
Candidate(i) == Decimal(10 ^ DECIMAL_PLACES - 50 * (i - 1))

\* number of positive candidates 1.0, 0.95, ..., 0.05
PositiveCandidates == (10 ^ DECIMAL_PLACES) \div 50

\* C13: when the displacement measured at the initial candidate 1.0 is at most
\* the field of view, equality included, the search returns 1.0 and has not
\* decremented.
C13_ReturnsInitialWhenFits ==
    (Len(measured) >= 1 /\ measured[1].displacement <= CAMERAS_VERTICAL_VIEW_FIELD * 10 ^ DECIMAL_PLACES
        /\ fo_pc # "compare")
    => /\ fo_pc = "returned"
       /\ fo_result = Float(1)
       /\ frequency = Float(1)
       /\ Len(measured) = 1

\* returned 1.0 on a displacement exactly equal to the field of view
C13_Witness ==
    /\ fo_pc = "returned"
    /\ fo_result = Float(1)
    /\ measured[1].displacement = CAMERAS_VERTICAL_VIEW_FIELD * 10 ^ DECIMAL_PLACES

\* C14 as stated: the search makes at most (1.0 - floor) / 0.05 = 19.98
\* measurements, counted in units of 10^-DECIMAL_PLACES.
C14_Original ==
    Len(measured) * 50 <= 10 ^ DECIMAL_PLACES - 1

\* statements still to run before the search must have returned
Rank ==
    IF fo_pc = "returned" THEN 0
    ELSE 4 * (PositiveCandidates - Len(measured))
         + CASE fo_pc = "compare" -> 4
             [] fo_pc = "decrement" -> 3
             [] fo_pc = "floor" -> 2
             [] fo_pc = "measure" -> 1

\* C14 amended: the search always terminates, after at most 20 measurements,
\* one for each positive candidate 1.0, 0.95, ..., 0.05: every step of the
\* search strictly lowers a natural number that is 0 only once it has returned.
C14_Amended ==
    /\ [](Len(measured) <= PositiveCandidates /\ Rank \in Nat)
    /\ [][Rank' < Rank]_vars

\* returned after every positive candidate was measured and none fitted
C14_Witness ==
    /\ fo_pc = "returned"
    /\ Len(measured) = PositiveCandidates
    /\ ~Fits(displacement)

\* C15: the candidates measured are 1.0, 0.95, 0.90, ... in this order (up to
\* the rounding to DECIMAL_PLACES that the return applies); every candidate
\* before the last one measured exceeded the field of view; the value returned
\* is the last candidate when it fitted, and the floor only when all positive
\* candidates were measured and none fitted; it is within [floor, 1.0].
C15_FirstFittingCandidate ==
    /\ \A i \in 1..Len(measured) :
        /\ PyRound(measured[i].candidate, DECIMAL_PLACES) = Candidate(i)
        /\ i < Len(measured) => ~(measured[i].displacement <= CAMERAS_VERTICAL_VIEW_FIELD * 10 ^ DECIMAL_PLACES)
    /\ fo_pc = "returned" =>
        /\ FLeq(MINIMUN_CAMERA_FREQUENCY, fo_result) /\ FLeq(fo_result, Float(1))
        /\ IF measured[Len(measured)].displacement <= CAMERAS_VERTICAL_VIEW_FIELD * 10 ^ DECIMAL_PLACES
             THEN fo_result = Candidate(Len(measured))
             ELSE fo_result = MINIMUN_CAMERA_FREQUENCY /\ Len(measured) = PositiveCandidates

\* returned the third candidate, 0.9, after 1.0 and 0.95 exceeded
C15_Witness ==
    /\ fo_pc = "returned"
    /\ Len(measured) = 3
    /\ fo_result = Decimal(900)
    /\ measured[3].candidate # Decimal(900)

(* ------------------ properties of the measurement loop ---------------- *)
\* C16: whatever the outcome of the surface-movement dispatch (success, failure
\* status, exception inside the transport call), the measurement loop starts
\* its next iteration.
C16_DispatchNeverAborts ==
    [][mv_pc = "dispatch" => (mv_pc' = "sample" /\ mv_samples' = 0 /\ mv_raised' = "-")]_vars

\* a new iteration is running after a dispatch that raised inside the transport
C16_Witness ==
    /\ mv_dispatch = "exception"
    /\ mv_pc = "sample"
    /\ mv_samples > 0

\* C17: an error raised inside one cycle of the measurement loop is caught at
\* the loop boundary and the loop goes on: it never terminates the loop.
C17_CycleErrorsContinue ==
    mv_raised # "-" => mv_pc # "exited"

(* -------------------- properties of the capture loop ------------------ *)
\* in the capture loop the controller never raises PictureNotReadyError or
\* CamerasNotReadyError: it is opened before the loop, and the one thread that
\* uses it arms it before every collect
CaptureFailuresNeverRaised ==
    /\ res[CaptureThread] \notin {"PictureNotReadyError", "CamerasNotReadyError"}
    /\ cap_exc \in {"-", "PictureNotFoundError"}

\* the camera calls of one pass of the loop, in order
CycleCalls ==
    <<<<"trigger", "GREEN">>, <<"collect", "GREEN">>, <<"trigger", "BLUE">>, <<"collect", "BLUE">>>>

\* C19: in every cycle the camera calls are trigger, collect(green), trigger,
\* collect(blue) in this order; when the blue trigger is issued the green
\* collect has returned and the device is disarmed; every dispatched batch
\* holds exactly two entries, green then blue.
C19_GreenBeforeBlue ==
    /\ [](/\ cap_trace = SubSeq(CycleCalls, 1, Len(cap_trace))
          /\ \A k \in Dispatches : tasks[k] # "unborn" => batches[k] = <<"GREEN", "BLUE">>)
    /\ [][(cap_pc = "trigger" /\ cap_pc' = "triggering" /\ Len(cap_trace) > 0)
            => /\ cap_trace = <<<<"trigger", "GREEN">>, <<"collect", "GREEN">>>>
               /\ op[CaptureThread] = "collect" /\ res[CaptureThread] = "Pictures"
               /\ ~trigger
               /\ lights = <<"GREEN">>]_vars

\* a batch was dispatched in the second cycle after its four camera calls
C19_Witness ==
    /\ cap_cycles = 2
    /\ tasks[2] # "unborn"
    /\ Len(cap_trace) = 4

\* C20: once a batch is assembled the loop can always take its next step, the
\* start of the dispatch thread and then the cadence sleep that leads to the
\* next cycle, whatever the dispatch threads are doing.
C20_LoopNeverWaitsForDispatch ==
    /\ [](cap_pc \in {"dispatch", "sleep"} => ENABLED (CaptureDispatch \/ CaptureSleep))
    /\ [][/\ (cap_pc = "dispatch" /\ cap_pc' # "dispatch")
                => (cap_pc' = "sleep" /\ tasks'[cap_cycles] = "encode")
          /\ (cap_pc = "sleep" /\ cap_pc' # "sleep" /\ cap_exc = "-") => cap_pc' = "cycle"]_vars

\* the second cycle has dispatched while the first dispatch is still blocked
\* in its transport call
C20_Witness ==
    /\ cap_cycles = 2
    /\ tasks[1] = "post"
    /\ tasks[2] = "encode"
    /\ cap_pc = "cycle"

\* C21: the displacement of every CapturedLight is its velocity times the time
\* elapsed since the light before it was assembled (since loop start for the
\* first light).
C21_ElapsedSincePreviousLight ==
    last_light # <<>> =>
        /\ last_light.time_elapsed = last_light.creation_time - prev_light_time
        /\ last_light.surface_displacement
             = last_light.surface_velocity * (last_light.creation_time - prev_light_time)

(* --------------------- properties of the two loops -------------------- *)
\* a step of the capture thread itself, inside the controller included
CaptureThreadStep ==
    \/ CaptureOpen \/ CaptureOpened \/ FirstCycle
    \/ CaptureTrigger \/ CaptureTriggered \/ CaptureCollect \/ CaptureCollected
    \/ CaptureDispatch \/ CaptureSleep
    \/ OpenAcquire(CaptureThread) \/ OpenSet(CaptureThread)
    \/ ReadyAcquire(CaptureThread) \/ ReadyCheck(CaptureThread)
    \/ TriggerAcquire(CaptureThread) \/ TriggerCheck(CaptureThread) \/ TriggerSet(CaptureThread)
    \/ CollectAcquire(CaptureThread) \/ CollectCheck(CaptureThread)
    \/ CollectGetPictures(CaptureThread)
    \/ CollectSleep(CaptureThread) \/ CollectClear(CaptureThread)

\* the capture loop has been followed to the end of its first pass
CaptureFollowed == cap_pc = "cycle" /\ cap_cycles > 0

\* C22: the two loops do not block each other. Until it has returned, the
\* measurement loop can take its next step in every state of the capture
\* loop (in the capture delay of collect(), in the cadence sleep, exited), and
\* the capture loop in every state of the measurement loop; a step of one
\* loop changes nothing of the other; the sensor is stopped only when both
\* loops have returned.
C22_LoopsIndependent ==
    /\ [](/\ mv_pc # "exited" => ENABLED MeasureNext
          /\ (cap_pc # "exited" /\ ~CaptureFollowed) => ENABLED CaptureThreadStep
          /\ main_pc = "done" => (mv_pc = "exited" /\ cap_pc = "exited"))
    /\ [][/\ measureVars' # measureVars => UNCHANGED <<camVars, captureVars>>
          /\ (camVars' # camVars \/ captureVars' # captureVars) => UNCHANGED measureVars]_vars

\* the measurement loop is in a later iteration, all samples read, while the
\* capture loop sits in the capture delay of its first collect()
C22_Witness ==
    /\ pc[CaptureThread] = "c_sleep"
    /\ Len(cap_trace) = 2
    /\ mv_dispatch # "-"
    /\ mv_pc = "dispatch"

(* ----------------- properties of the signal functions ----------------- *)
\* the samples handed in, as floats
Data == [i \in 1..Len(velocities) |-> Sample(velocities[i])]

\* the arithmetic mean of data[i..i+w-1], correctly rounded: the exact sum of
\* the window divided by w
WindowMean(data, i, w) ==
    LET Sum[j \in 0..w] == IF j = 0 THEN MagZero ELSE MagAdd(Sum[j - 1], data[i + j - 1].mag)
        q == MagDiv(Sum[w], w)
    IN [neg |-> FALSE, mag |-> Round(q.quot, q.inexact)]

\* rounding error allowed for one output of moving_average: 2^-50
MeanTolerance == [neg |-> FALSE, mag |-> Unit(FracBits - 50)]

\* |x - y| <= MeanTolerance
NearMean(x, y) ==
    /\ FLeq(FSub(y, MeanTolerance), x)
    /\ FLeq(x, FAdd(y, MeanTolerance))

MovingAverageCalled == sg_out # <<>> /\ sg_out.fn = "moving_average"

DisplacementCalled == sg_out # <<>> /\ sg_out.fn = "calculate_displacement"

\* the sum over the consecutive pairs of samples of v[i-1] + v[i], in tenths
PairSum(v) ==
    LET S[i \in 0..(Len(v) - 1)] == IF i = 0 THEN 0 ELSE S[i - 1] + v[i] + v[i + 1]
    IN S[Len(v) - 1]

\* C24: for at least 2 samples calculate_displacement(v, dt) returns the sum
\* over the consecutive pairs of 0.5 * (v[i-1] + v[i]) * dt, rounded to 3
\* decimal places; for [0.1, 0.2, 0.3, 0.4] and dt = 1 that is 0.75.
C24_TrapezoidalSum ==
    (DisplacementCalled /\ Len(velocities) >= 2) =>
        /\ sg_out.value = Decimal(50 * sg_out.time_interval * PairSum(velocities))
        /\ (velocities = <<1, 2, 3, 4>> /\ sg_out.time_interval = 1) =>
               sg_out.value = Decimal(750)

\* the reference case of tests.py was computed
C24_Witness ==
    /\ DisplacementCalled
    /\ velocities = <<1, 2, 3, 4>>
    /\ sg_out.time_interval = 1
    /\ sg_out.raised = "-"
    /\ sg_out.value = Decimal(750)

\* C25: calculate_displacement raises ValueError for every input of length 0
\* or 1 and for no input of length 2 or more, called directly or on the
\* smoothed samples of get_velocity_and_displacement.
C25_ValueErrorIffShort ==
    /\ DisplacementCalled => (sg_out.raised = "ValueError" <=> Len(velocities) < 2)
    /\ (sg_out # <<>> /\ sg_out.fn = "get_velocity_and_displacement" /\ sg_out.samples > 0) =>
           (sg_out.raised = "ValueError" <=> FilteredLen(sg_out.samples) < 2)

\* one sample was handed in and ValueError raised
C25_Witness ==
    /\ DisplacementCalled
    /\ Len(velocities) = 1
    /\ sg_out.raised = "ValueError"
(* -------------- properties of get_velocity_and_displacement ------------- *)
BatchCalled == sg_out # <<>> /\ sg_out.fn = "get_velocity_and_displacement"

\* the time_interval of the call in twentieths of a second
Twentieths == IF sg_out.time_interval = Float(1) THEN 20 ELSE 1

\* samplingRate * interval, rounded up: 66 samples for 1 s, 4 for 0.05 s
SamplesWanted == (VELOCITY_SAMPLES_PER_SECOND * Twentieths + 19) \div 20

\* the i-th smoothed sample in thirtieths of m/s, computed exactly: the sum of
\* its window of 3, or 3 times the sample when fewer than 3 were gathered
Smoothed(i) ==
    IF sg_out.samples < WindowSize THEN WindowSize * velocities[i]
    ELSE velocities[i] + velocities[i + 1] + velocities[i + 2]

\* the sum over the consecutive pairs of smoothed samples, in thirtieths
SmoothedPairSum ==
    LET S[i \in 0..(FilteredLen(sg_out.samples) - 1)] ==
            IF i = 0 THEN 0 ELSE S[i - 1] + Smoothed(i) + Smoothed(i + 1)
    IN S[FilteredLen(sg_out.samples) - 1]

\* x is n / d rounded to 3 decimal places (a tie may go either way)
RoundedRatio(x, n, d) ==
    \E k \in 0..(n \div d + 1) :
        /\ x = Decimal(k)
        /\ 2 * (d * k - n) <= d
        /\ 2 * (n - d * k) <= d

\* C26: get_velocity_and_displacement reads until it has samplingRate * interval
\* samples or a read returns None, which ends the batch with no further read;
\* it smooths with a window of 3 and returns the last smoothed sample rounded
\* to 3 places and the trapezoidal displacement of the smoothed samples with
\* dt = interval; [0.1, 0.2, 0.3, 0.4, 0.5] then None with interval 1 gives
\* (0.4, 0.6).
C26_BatchResult ==
    BatchCalled =>
        /\ sg_out.samples = IF Len(velocities) < SamplesWanted THEN Len(velocities)
                            ELSE SamplesWanted
        /\ sg_out.reads = IF Len(velocities) < SamplesWanted THEN sg_out.samples + 1
                          ELSE sg_out.samples
        /\ sg_out.raised = "-" =>
              /\ RoundedRatio(sg_out.velocity,
                              100 * Smoothed(FilteredLen(sg_out.samples)), 3)
              /\ RoundedRatio(sg_out.displacement, 5 * Twentieths * SmoothedPairSum, 6)
        /\ (velocities = <<1, 2, 3, 4, 5>> /\ sg_out.time_interval = Float(1)) =>
              /\ sg_out.raised = "-"
              /\ sg_out.reads = 6
              /\ sg_out.velocity = Decimal(400)
              /\ sg_out.displacement = Decimal(600)

\* the scenario of tests.py was computed
C26_Witness ==
    /\ BatchCalled
    /\ velocities = <<1, 2, 3, 4, 5>>
    /\ sg_out.time_interval = Float(1)
    /\ sg_out.reads = 6
    /\ sg_out.velocity = Decimal(400)
    /\ sg_out.displacement = Decimal(600)
(* ------------------ properties of a restart of the simulator ------------ *)
\* C27: a start() made after a stop() leaves a running generator: when it
\* returns a generation loop is alive and the run flag is true, also when the
\* loop signalled by the stop() has not yet exited. (The step is looked at
\* only while the model still has a thread left to create.)
C27_StartAfterStopRuns ==
    [][(event'.call = "start" /\ stop_pending /\ \E g \in Loops : gphase[g] = "unborn") =>
          (run_thread' /\ AliveLoops' # {})]_vars
(* ------------- the device at the triggers of the capture loop ----------- *)
\* C28: in the capture loop, the only user of its camera, the device is idle
\* wherever the loop calls trigger(): every trigger() of every cycle returns
\* true, and no collect() of the loop raises PictureNotReadyError.
C28_IdleAtEveryTrigger ==
    /\ cap_pc = "trigger" => ~trigger
    /\ res[CaptureThread] \notin {"False", "PictureNotReadyError"}
    /\ (cap_pc = "collect" => res[CaptureThread] = "True")

\* the blue trigger of the second cycle has returned true
C28_Witness ==
    /\ cap_cycles = 2
    /\ cap_pc = "collect"
    /\ cap_trace = SubSeq(CycleCalls, 1, 3)
    /\ res[CaptureThread] = "True"
====
